---- MODULE Spec2Model ----
(***************************************************************************)
(* The UI Executor workflow: prepare -> run -> parse -> approve ->         *)
(* (retry -> run | END), followed by the driver's exit code.               *)
(*                                                                         *)
(* The execution state is a Python dict; it is modelled as a TLA+ function *)
(* whose DOMAIN is the set of keys present, so that dict.get and           *)
(* dict.setdefault keep their meaning.  Text is modelled by TLA+ strings,  *)
(* floats by integers counting thousandths of a second.                    *)
(***************************************************************************)
EXTENDS Integers, Sequences, FiniteSets, TLC

VARIABLES
    pc,          \* the node about to execute (graph.py), or "END" / "exited"
    s,           \* the UIExecState dict threaded through the nodes
    junit_file,  \* the results file on disk at cwd/junit_path
    proc_calls,  \* the subprocess.run invocations made so far
    last_proc,   \* what the last subprocess.run invocation did (returned or raised)
    ans,         \* what the last input() call of the approval gate produced
    verdict,     \* the last value returned by decide_after_approval
    parsed,      \* number of <testcase> elements read by each completed parse step
    prompts,     \* number of input() calls made by the approval gate
    trace,       \* the nodes of the graph executed so far, in order
    exit_code    \* SystemExit code raised by main, -1 while running

vars == <<pc, s, junit_file, proc_calls, last_proc, ans, verdict, parsed, prompts, trace,
          exit_code>>

----------------------------------------------------------------------------
(* Bounds of the model *)

MaxCases == 2          \* most <testcase> elements in one results file
MaxAttemptsArg == 3    \* largest max_attempts a caller supplies
MaxAttemptInit == 2    \* largest attempt a caller supplies

----------------------------------------------------------------------------
(* Python dict and str primitives *)

Get(d, k, default) == IF k \in DOMAIN d THEN d[k] ELSE default

Has(d, k) == k \in DOMAIN d

Set(d, k, v) == (k :> v) @@ d

setdefault(d, k, v) == IF k \in DOMAIN d THEN d ELSE (k :> v) @@ d

EmptyDict == [k \in {} |-> 0]

\* int(x or d) on an int x: a falsy 0 is replaced by d
IntOr(x, d) == IF x = 0 THEN d ELSE x

\* a local variable: e is computed once and its value is handed to F
With(e, F(_)) == CHOOSE r \in { F(v) : v \in {e} } : TRUE

CharAt(t, i) == SubSeq(t, i, i)

UpperCs == "ABCDEFGHIJKLMNOPQRSTUVWXYZ"

LowerCs == "abcdefghijklmnopqrstuvwxyz"

UpperSet == { CharAt(UpperCs, i) : i \in 1..Len(UpperCs) }

LowerTable ==
    [c \in UpperSet |-> CharAt(LowerCs, CHOOSE i \in 1..Len(UpperCs) : CharAt(UpperCs, i) = c)]

LowerChar(c) == IF c \in UpperSet THEN LowerTable[c] ELSE c

\* the characters of a text, as a sequence of one-character strings
Chars(t) == [i \in 1..Len(t) |-> CharAt(t, i)]

\* str.lower(), as the sequence of the lowered characters
lower(t) == With(t, LAMBDA v : [i \in 1..Len(v) |-> LowerChar(CharAt(v, i))])

IsSpace(c) == c = " "

\* str.strip()
strip(t) ==
    With(t, LAMBDA v :
    With({i \in 1..Len(v) : ~IsSpace(CharAt(v, i))}, LAMBDA solid :
        IF solid = {} THEN ""
        ELSE SubSeq(v, CHOOSE i \in solid : \A k \in solid : i <= k,
                       CHOOSE i \in solid : \A k \in solid : i >= k)))

\* needle in hay, for a sequence of characters hay and a text needle
Contains(hay, needle) ==
    \E i \in 1..(Len(hay) - Len(needle) + 1) :
        \A k \in 1..Len(needle) : hay[i + k - 1] = CharAt(needle, k)

\* str(Path(a) / b) for a relative b; Path(".") / b prints as b
PathJoin(a, b) == IF a = "." THEN b ELSE a \o "/" \o b

----------------------------------------------------------------------------
(* The environment: directories, the subprocess, the results file *)

ExistingDirs == {"."}

MissingDir == "no_such_dir"

PathExists(dir) == dir \in ExistingDirs

OsEnviron == [PATH |-> "/usr/bin"]

\* what subprocess.run can do: return a CompletedProcess or raise
ProcOutcomes ==
    { [raised |-> FALSE, returncode |-> 0, stdout |-> "2 passed", stderr |-> "", exc |-> ""],
      [raised |-> TRUE, returncode |-> 0, stdout |-> "", stderr |-> "",
       exc |-> "[Errno 2] No such file or directory: 'npm'"] }

\* no subprocess.run invocation has been made
NoProc == [raised |-> FALSE, returncode |-> 0, stdout |-> "", stderr |-> "", exc |-> ""]

----------------------------------------------------------------------------
(* Node 1: prepare_config *)

DefaultCmd == <<"npm", "run", "test:ui">>

ZeroSummary == [total |-> 0, passed |-> 0, failed |-> 0, skipped |-> 0]

\* preparation that assigns attempt instead of defaulting it
prepare_config_overwriting(state) ==
    LET s1 == setdefault(state, "project", "ui")
        s2 == setdefault(s1, "cwd", ".")
        s3 == setdefault(s2, "cmd", DefaultCmd)
        s4 == setdefault(s3, "junit_path", "results/junit-ui.xml")
        s5 == setdefault(s4, "env", EmptyDict)
        s6 == Set(s5, "attempt", 1)
        s7 == setdefault(s6, "max_attempts", 2)
        s8 == setdefault(s7, "approved", TRUE)
        s9 == setdefault(s8, "results", <<>>)
        s10 == setdefault(s9, "summary", ZeroSummary)
        s11 == setdefault(s10, "errors", <<>>)
        s12 == setdefault(s11, "policy", "flaky_only")
        s13 == setdefault(s12, "retry_scope", "full")
    IN s13

prepare_config(state) ==
    LET s1 == setdefault(state, "project", "ui")
        s2 == setdefault(s1, "cwd", ".")
        s3 == setdefault(s2, "cmd", DefaultCmd)
        s4 == setdefault(s3, "junit_path", "results/junit-ui.xml")
        s5 == setdefault(s4, "env", EmptyDict)
        s6 == setdefault(s5, "attempt", 1)
        s7 == setdefault(s6, "max_attempts", 2)
        s8 == setdefault(s7, "approved", TRUE)
        s9 == setdefault(s8, "results", <<>>)
        s10 == setdefault(s9, "summary", ZeroSummary)
        s11 == setdefault(s10, "errors", <<>>)
        s12 == setdefault(s11, "policy", "flaky_only")
        s13 == setdefault(s12, "retry_scope", "full")
    IN s13

----------------------------------------------------------------------------
(* Node 2: execute_tests *)

\* errors = s.setdefault("errors", []); errors.append(msg)
append_error(st, msg) == Set(st, "errors", Append(Get(st, "errors", <<>>), msg))

\* the subprocess.run calls execute_tests makes: none when cwd is missing
subprocess_calls(st) ==
    LET cwd_str == Get(st, "cwd", ".")
    IN IF ~PathExists(cwd_str) THEN <<>>
       ELSE << [cmd |-> Get(st, "cmd", <<>>),
                cwd |-> cwd_str,
                env |-> Get(st, "env", EmptyDict) @@ OsEnviron] >>

\* runner that reports a missing cwd in stderr only, without an error entry
execute_tests_silent(st, proc) ==
    LET cwd_str == Get(st, "cwd", ".")
    IN IF ~PathExists(cwd_str)
       THEN Set(Set(Set(st, "run_rc", 2), "stdout", ""),
                "stderr", "Directory not found: " \o cwd_str)
       ELSE IF ~proc.raised
            THEN Set(Set(Set(st, "run_rc", proc.returncode), "stdout", proc.stdout),
                     "stderr", proc.stderr)
            ELSE LET e1 == setdefault(st, "errors", <<>>)
                     e2 == Set(Set(Set(e1, "run_rc", 2), "stdout", ""),
                               "stderr", "[execute_tests] Exception: " \o proc.exc)
                 IN append_error(e2, proc.exc)

execute_tests(st, proc) ==
    LET cwd_str == Get(st, "cwd", ".")
    IN IF ~PathExists(cwd_str)
       THEN LET e1 == append_error(st, "[execute_tests] cwd not found: " \o cwd_str)
            IN Set(Set(Set(e1, "run_rc", 2), "stdout", ""),
                   "stderr", "Directory not found: " \o cwd_str)
       ELSE IF ~proc.raised
            THEN Set(Set(Set(st, "run_rc", proc.returncode), "stdout", proc.stdout),
                     "stderr", proc.stderr)
            ELSE LET e1 == setdefault(st, "errors", <<>>)
                     e2 == Set(Set(Set(e1, "run_rc", 2), "stdout", ""),
                               "stderr", "[execute_tests] Exception: " \o proc.exc)
                 IN append_error(e2, proc.exc)

----------------------------------------------------------------------------
(* The results file: an XML document of ElementTree elements *)

Element(tag, attrib, children) == [tag |-> tag, attrib |-> attrib, children |-> children]

FailureEl(attrib) == Element("failure", attrib, <<>>)

SkippedEl == Element("skipped", EmptyDict, <<>>)

\* the <testcase> elements a results file is assembled from, in document order
TestCaseEls ==
    << Element("testcase", [name |-> "login test", classname |-> "auth", time |-> "1.5"], <<>>),
       Element("testcase", [name |-> "cart total", classname |-> "cart"],
               << FailureEl([message |-> "  Element NOT visible after Timeout "]) >>),
       Element("testcase", [name |-> "search", classname |-> "shop", time |-> "abc"], <<>>),
       Element("testcase", [name |-> "login test", classname |-> "auth", time |-> ""],
               << FailureEl([message |-> "assertion failed: expected true"]) >>),
       Element("testcase", [name |-> "Checkout @Flaky", classname |-> "cart", time |-> "0.25"],
               << FailureEl(EmptyDict), SkippedEl >>),
       Element("testcase", [name |-> "profile @flaky", classname |-> "user", time |-> "2"],
               << SkippedEl >>) >>

\* the <testcase> lists of a results file: at most MaxCases consecutive elements
CaseLists ==
    {<<>>} \cup { SubSeq(TestCaseEls, w[1], w[1] + w[2] - 1) :
                    w \in { v \in (1..Len(TestCaseEls)) \X (1..MaxCases) :
                               v[1] + v[2] - 1 <= Len(TestCaseEls) } }

\* a single <testsuite> root, or a <testsuites> root with nested suites
Document(tcs) ==
    IF Len(tcs) <= 1 THEN Element("testsuite", [name |-> "ui"], tcs)
    ELSE Element("testsuites", EmptyDict,
                 << Element("testsuite", [name |-> "a"], SubSeq(tcs, 1, 1)),
                    Element("testsuite", [name |-> "b"], SubSeq(tcs, 2, Len(tcs))) >>)

NoFile == [exists |-> FALSE, wellformed |-> FALSE, root |-> Document(<<>>)]

GarbageFile == [exists |-> TRUE, wellformed |-> FALSE, root |-> Document(<<>>)]

XmlFile(tcs) == [exists |-> TRUE, wellformed |-> TRUE, root |-> Document(tcs)]

Files == {NoFile, GarbageFile} \cup { XmlFile(tcs) : tcs \in CaseLists }

\* what an earlier run of the suite may have left at junit_path
StaleFiles == {NoFile, XmlFile(SubSeq(TestCaseEls, 1, 2))}

\* Element.iter(tag): the element and its descendants with that tag, document order
RECURSIVE iter(_, _)
RECURSIVE iter_children(_, _, _)
iter(el, tag) ==
    (IF el.tag = tag THEN <<el>> ELSE <<>>) \o iter_children(el.children, tag, 1)

\* the matches below the children from position k on
iter_children(els, tag, k) ==
    IF k > Len(els) THEN <<>>
    ELSE iter(els[k], tag) \o iter_children(els, tag, k + 1)

\* Element.find(tag) is not None
has_child(el, tag) == \E i \in 1..Len(el.children) : el.children[i].tag = tag

\* Element.find(tag): the first direct child with that tag
find(el, tag) ==
    el.children[CHOOSE i \in 1..Len(el.children) :
                    /\ el.children[i].tag = tag
                    /\ \A j \in 1..(i - 1) : el.children[j].tag # tag]

----------------------------------------------------------------------------
(* float(): decimal literals of digits with at most one point; the value   *)
(* is kept in thousandths.  Any other text raises ValueError.  (The texts  *)
(* of the model contain no sign, exponent, blank, "inf" or "nan".)         *)

Digits == "0123456789"

IsDigit(c) == \E i \in 1..Len(Digits) : CharAt(Digits, i) = c

DigitVal(c) == (CHOOSE i \in 1..Len(Digits) : CharAt(Digits, i) = c) - 1

Pow10(n) == IF n = 0 THEN 1 ELSE IF n = 1 THEN 10 ELSE IF n = 2 THEN 100 ELSE 1000

\* the value of a text of at most four digits
digits_val(t) ==
    (IF Len(t) >= 1 THEN DigitVal(CharAt(t, 1)) * Pow10(Len(t) - 1) ELSE 0)
    + (IF Len(t) >= 2 THEN DigitVal(CharAt(t, 2)) * Pow10(Len(t) - 2) ELSE 0)
    + (IF Len(t) >= 3 THEN DigitVal(CharAt(t, 3)) * Pow10(Len(t) - 3) ELSE 0)
    + (IF Len(t) >= 4 THEN DigitVal(CharAt(t, 4)) * Pow10(Len(t) - 4) ELSE 0)

float_ok(t) ==
    /\ \A i \in 1..Len(t) : IsDigit(CharAt(t, i)) \/ CharAt(t, i) = "."
    /\ Cardinality({i \in 1..Len(t) : CharAt(t, i) = "."}) <= 1
    /\ \E i \in 1..Len(t) : IsDigit(CharAt(t, i))

float_val(t) ==
    With(IF \E i \in 1..Len(t) : CharAt(t, i) = "."
         THEN CHOOSE i \in 1..Len(t) : CharAt(t, i) = "."
         ELSE Len(t) + 1, LAMBDA dot :
    With(SubSeq(t, 1, dot - 1), LAMBDA whole :
    With(SubSeq(t, dot + 1, IF dot + 3 < Len(t) THEN dot + 3 ELSE Len(t)), LAMBDA frac :
        digits_val(whole) * 1000 + digits_val(frac) * Pow10(3 - Len(frac)))))

\* float(tc.attrib.get("time", "0") or 0.0)
time_raises(tc) ==
    \E raw \in {Get(tc.attrib, "time", "0")} : raw # "" /\ ~float_ok(raw)

time_value(tc) ==
    With(Get(tc.attrib, "time", "0"), LAMBDA raw : IF raw = "" THEN 0 ELSE float_val(raw))

----------------------------------------------------------------------------
(* Node 3: parse_results *)

\* lines 103-112: status and message of one <testcase>
\* status that looks at the skip marker before the failure marker
case_status_skip_first(tc) ==
    IF has_child(tc, "skipped") THEN "skipped"
    ELSE IF has_child(tc, "failure") THEN "failed"
    ELSE "passed"

case_status(tc) ==
    IF has_child(tc, "failure") THEN "failed"
    ELSE IF has_child(tc, "skipped") THEN "skipped"
    ELSE "passed"

case_message(tc) ==
    IF has_child(tc, "failure")
    THEN With(find(tc, "failure"), LAMBDA failure_el :
            strip(Get(failure_el.attrib, "message", "")))
    ELSE ""

\* lines 121-129: the dict appended for one <testcase>
case_record(tc, st) ==
    [name |-> Get(tc.attrib, "name", ""),
     suite |-> Get(tc.attrib, "classname", ""),
     time_s |-> time_value(tc),
     status |-> case_status(tc),
     message |-> case_message(tc),
     attempt |-> IntOr(Get(st, "attempt", 1), 1),
     project |-> "UI"]

CountStatus(cases, status) == Cardinality({i \in 1..Len(cases) : cases[i].status = status})

\* results replaced by this attempt's cases instead of extended
extend_results_replacing(st, cases) == Set(st, "results", cases)

\* results extended only by the cases it does not hold yet
extend_results_dedup(st, cases) ==
    LET results == Get(st, "results", <<>>)
        fresh(c) == \A i \in 1..Len(results) : results[i] # c
    IN Set(st, "results", results \o SelectSeq(cases, fresh))

\* lines 132-133: results = s.setdefault("results", []); results.extend(cases)
extend_results(st, cases) == Set(st, "results", Get(st, "results", <<>>) \o cases)

\* tally whose skip counter is not an elif: a case with both markers counts twice
try_parse_double_count(st, file) ==
    IF ~file.wellformed
    THEN [raised |-> TRUE, exc |-> "syntax error: line 1, column 0", state |-> st]
    ELSE With(iter(file.root, "testcase"), LAMBDA testcases :
         With({i \in 1..Len(testcases) : time_raises(testcases[i])}, LAMBDA bad :
            IF bad # {}
            THEN LET first == CHOOSE i \in bad : \A j \in bad : i <= j
                 IN [raised |-> TRUE,
                     exc |-> "could not convert string to float: '"
                             \o testcases[first].attrib.time \o "'",
                     state |-> st]
            ELSE With([i \in 1..Len(testcases) |-> case_record(testcases[i], st)],
                 LAMBDA cases :
                 LET total == Len(testcases)
                     passed == CountStatus(cases, "passed")
                     failed == CountStatus(cases, "failed")
                     skipped == Cardinality({i \in 1..Len(testcases) :
                                               has_child(testcases[i], "skipped")})
                     s1 == extend_results(st, cases)
                     s2 == Set(s1, "summary", [total |-> total, passed |-> passed,
                                               failed |-> failed, skipped |-> skipped])
                 IN [raised |-> FALSE, exc |-> "", state |-> s2])))

\* tally taken over the accumulated results instead of this attempt's cases
try_parse_cumulative(st, file) ==
    IF ~file.wellformed
    THEN [raised |-> TRUE, exc |-> "syntax error: line 1, column 0", state |-> st]
    ELSE With(iter(file.root, "testcase"), LAMBDA testcases :
         With({i \in 1..Len(testcases) : time_raises(testcases[i])}, LAMBDA bad :
            IF bad # {}
            THEN LET first == CHOOSE i \in bad : \A j \in bad : i <= j
                 IN [raised |-> TRUE,
                     exc |-> "could not convert string to float: '"
                             \o testcases[first].attrib.time \o "'",
                     state |-> st]
            ELSE With([i \in 1..Len(testcases) |-> case_record(testcases[i], st)],
                 LAMBDA cases :
                 LET s1 == extend_results(st, cases)
                     total == Len(s1.results)
                     passed == CountStatus(s1.results, "passed")
                     failed == CountStatus(s1.results, "failed")
                     skipped == Cardinality({i \in 1..Len(s1.results) :
                                               s1.results[i].status \notin {"passed", "failed"}})
                     s2 == Set(s1, "summary", [total |-> total, passed |-> passed,
                                               failed |-> failed, skipped |-> skipped])
                 IN [raised |-> FALSE, exc |-> "", state |-> s2])))

\* lines 90-134, the body of the try block: either an exception escapes it
\* (raised, with its text) or it yields the updated state
try_parse(st, file) ==
    IF ~file.wellformed
    THEN [raised |-> TRUE, exc |-> "syntax error: line 1, column 0", state |-> st]
    ELSE With(iter(file.root, "testcase"), LAMBDA testcases :
         With({i \in 1..Len(testcases) : time_raises(testcases[i])}, LAMBDA bad :
            IF bad # {}
            THEN LET first == CHOOSE i \in bad : \A j \in bad : i <= j
                 IN [raised |-> TRUE,
                     exc |-> "could not convert string to float: '"
                             \o testcases[first].attrib.time \o "'",
                     state |-> st]
            ELSE With([i \in 1..Len(testcases) |-> case_record(testcases[i], st)],
                 LAMBDA cases :
                 LET total == Len(testcases)
                     passed == CountStatus(cases, "passed")
                     failed == CountStatus(cases, "failed")
                     skipped == Cardinality({i \in 1..Len(cases) :
                                               cases[i].status \notin {"passed", "failed"}})
                     s1 == extend_results(st, cases)
                     s2 == Set(s1, "summary", [total |-> total, passed |-> passed,
                                               failed |-> failed, skipped |-> skipped])
                 IN [raised |-> FALSE, exc |-> "", state |-> s2])))

\* parser that zeroes the summary when the file is missing or unparseable
parse_results_zeroing(st, file) ==
    LET junit_path == PathJoin(Get(st, "cwd", "."), Get(st, "junit_path", "results/junit-ui.xml"))
        zeroed == Set(st, "summary", ZeroSummary)
    IN IF ~file.exists
       THEN append_error(zeroed, "[parse_results] JUnit not found at: " \o junit_path)
       ELSE With(try_parse(st, file), LAMBDA r :
               IF r.raised
               THEN append_error(zeroed, "[parse_results] Exception: " \o r.exc)
               ELSE r.state)

parse_results(st, file) ==
    LET junit_path == PathJoin(Get(st, "cwd", "."), Get(st, "junit_path", "results/junit-ui.xml"))
    IN IF ~file.exists
       THEN append_error(st, "[parse_results] JUnit not found at: " \o junit_path)
       ELSE With(try_parse(st, file), LAMBDA r :
               IF r.raised
               THEN append_error(st, "[parse_results] Exception: " \o r.exc)
               ELSE r.state)

----------------------------------------------------------------------------
(* Node 4: approval_checkpoint *)

\* input() either raises EOFError or returns a line
NoAnswer == [eof |-> TRUE, line |-> ""]

Answers == {NoAnswer} \cup { [eof |-> FALSE, line |-> l] :
                               l \in {"approve", " Deny ", "yes"} }

ApproveText == Chars("approve")

DenyText == Chars("deny")

\* gate that treats every answer other than approve as a denial
approval_checkpoint_default_deny(st, inp) ==
    IF inp.eof THEN st
    ELSE With(lower(strip(inp.line)), LAMBDA a : Set(st, "approved", a = ApproveText))

approval_checkpoint(st, inp) ==
    IF inp.eof THEN st
    ELSE With(lower(strip(inp.line)), LAMBDA a :
            IF a \in {ApproveText, DenyText}
            THEN Set(st, "approved", a = ApproveText)
            ELSE st)

----------------------------------------------------------------------------
(* Helper _is_retry_eligible_ui and router decide_after_approval *)

TransientSignals == {"not visible", "timeout", "timed out", "network", "navigation"}

is_retry_eligible_ui(case) ==
    \E title \in {lower(Get(case, "name", ""))}, msg \in {lower(Get(case, "message", ""))} :
        IF Contains(title, "@flaky") THEN TRUE
        ELSE \E sig \in TransientSignals : Contains(msg, sig)

\* flaky_only branch that looks at the failed cases of every attempt
flaky_only_verdict_any_attempt(state) ==
    LET results == Get(state, "results", <<>>)
        failed_cases == {i \in 1..Len(results) : results[i].status = "failed"}
    IN IF \E i \in failed_cases : is_retry_eligible_ui(results[i])
       THEN "retry" ELSE "end"

\* the flaky_only branch of the router (lines 190-195)
flaky_only_verdict(state) ==
    LET attempt_now == IntOr(Get(state, "attempt", 1), 1)
        results == Get(state, "results", <<>>)
        failed_cases == {i \in 1..Len(results) :
                            /\ results[i].attempt = attempt_now
                            /\ results[i].status = "failed"}
    IN IF \E i \in failed_cases : is_retry_eligible_ui(results[i])
       THEN "retry" ELSE "end"

\* router whose attempt cap is off by one (> instead of >=)
decide_after_approval_late_cap(state) ==
    LET failed == IntOr(Get(Get(state, "summary", EmptyDict), "failed", 0), 0)
    IN IF failed = 0 THEN "end"
       ELSE IF Has(state, "policy") /\ state.policy = "none" THEN "end"
       ELSE IF Has(state, "approved") /\ state.approved = FALSE THEN "end"
       ELSE IF IntOr(Get(state, "attempt", 1), 1) > IntOr(Get(state, "max_attempts", 1), 1)
            THEN "end"
       ELSE IF Has(state, "policy") /\ state.policy = "always" THEN "retry"
       ELSE flaky_only_verdict(state)

\* router that answers the attempt cap with a value the edge map does not know
decide_after_approval_unmapped(state) ==
    LET failed == IntOr(Get(Get(state, "summary", EmptyDict), "failed", 0), 0)
    IN IF failed = 0 THEN "end"
       ELSE IF Has(state, "policy") /\ state.policy = "none" THEN "end"
       ELSE IF Has(state, "approved") /\ state.approved = FALSE THEN "end"
       ELSE IF IntOr(Get(state, "attempt", 1), 1) >= IntOr(Get(state, "max_attempts", 1), 1)
            THEN "stop"
       ELSE IF Has(state, "policy") /\ state.policy = "always" THEN "retry"
       ELSE flaky_only_verdict(state)

\* router that does not look at approved
decide_after_approval_ignoring_approval(state) ==
    LET failed == IntOr(Get(Get(state, "summary", EmptyDict), "failed", 0), 0)
    IN IF failed = 0 THEN "end"
       ELSE IF Has(state, "policy") /\ state.policy = "none" THEN "end"
       ELSE IF IntOr(Get(state, "attempt", 1), 1) >= IntOr(Get(state, "max_attempts", 1), 1)
            THEN "end"
       ELSE IF Has(state, "policy") /\ state.policy = "always" THEN "retry"
       ELSE flaky_only_verdict(state)

decide_after_approval(state) ==
    LET failed == IntOr(Get(Get(state, "summary", EmptyDict), "failed", 0), 0)
    IN IF failed = 0 THEN "end"
       ELSE IF Has(state, "policy") /\ state.policy = "none" THEN "end"
       ELSE IF Has(state, "approved") /\ state.approved = FALSE THEN "end"
       ELSE IF IntOr(Get(state, "attempt", 1), 1) >= IntOr(Get(state, "max_attempts", 1), 1)
            THEN "end"
       ELSE IF Has(state, "policy") /\ state.policy = "always" THEN "retry"
       ELSE flaky_only_verdict(state)

----------------------------------------------------------------------------
(* Node 5: retry_once *)

\* bookkeeping that counts the retry twice
retry_once_twice(st) ==
    LET current_attempt == IntOr(Get(st, "attempt", 1), 1)
    IN Set(st, "attempt", current_attempt + 2)

\* bookkeeping that also clears the summary for the attempt to come
retry_once_resetting(st) ==
    LET current_attempt == IntOr(Get(st, "attempt", 1), 1)
    IN Set(Set(st, "attempt", current_attempt + 1), "summary", ZeroSummary)

retry_once(st) ==
    LET current_attempt == IntOr(Get(st, "attempt", 1), 1)
    IN Set(st, "attempt", current_attempt + 1)

----------------------------------------------------------------------------
(* graph.py: the edges of the compiled graph *)

\* add_edge / set_entry_point
EntryPoint == "prepare"

\* edges whose retry node leads back to prepare instead of run
Edge_retry_to_prepare ==
    [prepare |-> "run", run |-> "parse", parse |-> "approve", retry |-> "prepare"]

Edge == [prepare |-> "run", run |-> "parse", parse |-> "approve", retry |-> "run"]

\* add_conditional_edges("approve", decide_after_approval, {...})
RouteMap == [retry |-> "retry", end |-> "END"]

----------------------------------------------------------------------------
(* run_ui_executor.py: main *)

\* exit code that also fails the process when an internal error was recorded
main_exit_code_errors(final) ==
    LET summary == Get(final, "summary", EmptyDict)
        failed == IntOr(Get(summary, "failed", 0), 0)
    IN IF failed = 0 /\ Get(final, "errors", <<>>) = <<>> THEN 0 ELSE 1

\* exit code taken from the subprocess instead of the summary
main_exit_code_rc(final) == IF Get(final, "run_rc", 0) = 0 THEN 0 ELSE 1

main_exit_code(final) ==
    LET summary == Get(final, "summary", EmptyDict)
        failed == IntOr(Get(summary, "failed", 0), 0)
    IN IF failed = 0 THEN 0 ELSE 1

----------------------------------------------------------------------------
(* The states a caller hands to app.invoke.  main supplies project, cwd,   *)
(* junit_path, max_attempts, policy, retry_scope and env; a caller of the  *)
(* graph may leave max_attempts and policy out and may supply attempt and  *)
(* approved.  attempt is 1-based.                                          *)

Opt(k, vals) == {EmptyDict} \cup { (k :> v) : v \in vals }

Policies == {"always", "flaky_only", "none"}

InputStates ==
    { a @@ m @@ p @@ ap @@
      [project |-> "ui", cwd |-> c, junit_path |-> "results/junit-ui.xml",
       retry_scope |-> "full", env |-> [FLAKE_P |-> "1"]] :
        a \in Opt("attempt", 1..MaxAttemptInit),
        m \in Opt("max_attempts", 0..MaxAttemptsArg),
        p \in Opt("policy", Policies),
        ap \in Opt("approved", BOOLEAN),
        c \in ExistingDirs \cup {MissingDir} }

----------------------------------------------------------------------------
(* The workflow as a state machine *)

Init ==
    /\ pc = EntryPoint
    /\ s \in InputStates
    /\ junit_file \in (IF PathExists(s.cwd) THEN StaleFiles ELSE {NoFile})
    /\ proc_calls = <<>>
    /\ last_proc = NoProc
    /\ ans = NoAnswer
    /\ verdict = ""
    /\ parsed = <<>>
    /\ prompts = 0
    /\ trace = <<>>
    /\ exit_code = -1

Prepare ==
    /\ pc = "prepare"
    /\ s' = prepare_config(s)
    /\ trace' = Append(trace, pc)
    /\ pc' = Edge[pc]
    /\ UNCHANGED <<junit_file, proc_calls, last_proc, ans, verdict, parsed, prompts, exit_code>>

\* the test command, when it runs, leaves any results file behind
Run ==
    /\ pc = "run"
    /\ \E outcome \in ProcOutcomes, written \in Files :
        /\ s' = execute_tests(s, outcome)
        /\ proc_calls' = proc_calls \o subprocess_calls(s)
        /\ last_proc' = IF subprocess_calls(s) = <<>> THEN last_proc ELSE outcome
        /\ junit_file' = IF subprocess_calls(s) = <<>> \/ outcome.raised
                         THEN junit_file ELSE written
    /\ trace' = Append(trace, pc)
    /\ pc' = Edge[pc]
    /\ UNCHANGED <<ans, verdict, parsed, prompts, exit_code>>

\* the number of <testcase> elements a parse step reads to the end
parsed_count(file) ==
    IF ~(file.exists /\ file.wellformed) THEN 0
    ELSE With(iter(file.root, "testcase"), LAMBDA testcases :
            IF \A i \in 1..Len(testcases) : ~time_raises(testcases[i])
            THEN Len(testcases) ELSE 0)

Parse ==
    /\ pc = "parse"
    /\ s' = parse_results(s, junit_file)
    /\ parsed' = Append(parsed, parsed_count(junit_file))
    /\ trace' = Append(trace, pc)
    /\ pc' = Edge[pc]
    /\ UNCHANGED <<junit_file, proc_calls, last_proc, ans, verdict, prompts, exit_code>>

Approve ==
    /\ pc = "approve"
    /\ \E inp \in Answers :
        /\ s' = approval_checkpoint(s, inp)
        /\ ans' = inp
    /\ prompts' = prompts + 1
    /\ trace' = Append(trace, pc)
    /\ pc' = "route"
    /\ UNCHANGED <<junit_file, proc_calls, last_proc, verdict, parsed, exit_code>>

\* the conditional edge: the router's value selects the next node
Route ==
    /\ pc = "route"
    /\ verdict' = decide_after_approval(s)
    /\ verdict' \in DOMAIN RouteMap
    /\ pc' = RouteMap[verdict']
    /\ ans' = NoAnswer
    /\ UNCHANGED <<s, junit_file, proc_calls, last_proc, parsed, prompts, trace, exit_code>>

Retry ==
    /\ pc = "retry"
    /\ s' = retry_once(s)
    /\ trace' = Append(trace, pc)
    /\ pc' = Edge[pc]
    /\ UNCHANGED <<junit_file, proc_calls, last_proc, ans, verdict, parsed, prompts, exit_code>>

\* app.invoke has returned: main prints, writes the report and exits
Exit ==
    /\ pc = "END"
    /\ exit_code' = main_exit_code(s)
    /\ pc' = "exited"
    /\ UNCHANGED <<s, junit_file, proc_calls, last_proc, ans, verdict, parsed, prompts, trace>>

\* a caller applying prepare_config to a state that prepare_config returned
PrepareAgain ==
    /\ pc = "run"
    /\ trace = <<"prepare">>
    /\ s' = prepare_config(s)
    /\ trace' = Append(trace, "prepare")
    /\ UNCHANGED <<pc, junit_file, proc_calls, last_proc, ans, verdict, parsed, prompts,
                   exit_code>>

\* a caller applying parse_results once more, with the file and attempt as they are
ParseAgain ==
    /\ pc = "approve"
    /\ Len(parsed) = 1
    /\ s' = parse_results(s, junit_file)
    /\ parsed' = Append(parsed, parsed_count(junit_file))
    /\ trace' = Append(trace, "parse")
    /\ UNCHANGED <<pc, junit_file, proc_calls, last_proc, ans, verdict, prompts, exit_code>>

Next == Prepare \/ Run \/ Parse \/ Approve \/ Route \/ Retry \/ Exit

Spec == Init /\ [][Next]_vars

\* a state in which the caller supplies every field prepare_config knows, each
\* with a value other than the default
SuppliedState ==
    [project |-> "web", cwd |-> "e2e", cmd |-> <<"npx", "playwright", "test">>,
     junit_path |-> "out/junit.xml", env |-> [CI |-> "1"], attempt |-> 3,
     max_attempts |-> 0, approved |-> FALSE,
     results |-> << [name |-> "old", suite |-> "s", time_s |-> 0, status |-> "failed",
                     message |-> "", attempt |-> 2, project |-> "UI"] >>,
     summary |-> [total |-> 3, passed |-> 1, failed |-> 2, skipped |-> 0],
     errors |-> <<"earlier error">>, policy |-> "none", retry_scope |-> "failed_only"]

\* the partial states: any subset of the fields supplied
PartialStates == { [k \in K |-> SuppliedState[k]] : K \in SUBSET DOMAIN SuppliedState }

PrepareInit ==
    /\ pc = EntryPoint
    /\ s \in PartialStates
    /\ junit_file = NoFile
    /\ proc_calls = <<>>
    /\ last_proc = NoProc
    /\ ans = NoAnswer
    /\ verdict = ""
    /\ parsed = <<>>
    /\ prompts = 0
    /\ trace = <<>>
    /\ exit_code = -1

\* prepare_config on its own, applied once and then once more
PrepareSpec == PrepareInit /\ [][Prepare \/ PrepareAgain]_vars

\* the states handed to parse_results: prepared states, with or without the
\* cases and summary of an earlier attempt
ParseInputs ==
    { IF old THEN Set(Set(prepare_config(i), "results", SuppliedState.results),
                      "summary", SuppliedState.summary)
      ELSE prepare_config(i) :
        i \in {st \in InputStates : PathExists(st.cwd)}, old \in BOOLEAN }

ParseInit ==
    /\ pc = "parse"
    /\ s \in ParseInputs
    /\ junit_file \in Files
    /\ proc_calls = <<>>
    /\ last_proc = NoProc
    /\ ans = NoAnswer
    /\ verdict = ""
    /\ parsed = <<>>
    /\ prompts = 0
    /\ trace = <<"prepare", "run">>
    /\ exit_code = -1

\* parse_results on its own, applied once and then once more
ParseSpec == ParseInit /\ [][Parse \/ ParseAgain]_vars

\* every step of the graph and of main runs to completion
FairSpec == Spec /\ WF_vars(Next)

TypeOK ==
    /\ pc \in {"prepare", "run", "parse", "approve", "route", "retry", "END", "exited"}
    /\ exit_code \in {-1, 0, 1}
    /\ verdict \in {"", "retry", "end"}

----------------------------------------------------------------------------
(* Properties *)

Attempt == Get(s, "attempt", 1)

MaxAttempts == Get(s, "max_attempts", 2)

Results == Get(s, "results", <<>>)

Summary == Get(s, "summary", ZeroSummary)

Errors == Get(s, "errors", <<>>)

IsPrefix(a, b) == Len(a) <= Len(b) /\ SubSeq(b, 1, Len(a)) = a

\* the precedence of the Retry Decider, rule by rule
DeciderRule(st) ==
    IF st.summary.failed = 0 THEN "end"
    ELSE IF st.policy = "none" THEN "end"
    ELSE IF st.approved = FALSE THEN "end"
    ELSE IF st.attempt >= st.max_attempts THEN "end"
    ELSE IF st.policy = "always" THEN "retry"
    ELSE IF \E i \in 1..Len(st.results) :
               /\ st.results[i].attempt = st.attempt
               /\ st.results[i].status = "failed"
               /\ is_retry_eligible_ui(st.results[i])
         THEN "retry"
         ELSE "end"

\* C1: whenever the router has just been evaluated on the state, its value is
\* the one given by the precedence failed == 0, policy none, not approved,
\* attempt cap, policy always, flaky_only with an eligible failure of this attempt
C1_DeciderPrecedence ==
    pc \in {"retry", "END", "exited"} => verdict = DeciderRule(s)

\* C1 witness: a flaky_only run was sent to retry by an eligible failure
C1_Witness ==
    /\ pc = "retry"
    /\ verdict = "retry"
    /\ s.policy = "flaky_only"
    /\ s.attempt = 2

\* C2 as stated: after prepare attempt never exceeds max_attempts, and attempt
\* changes only by the retry step adding exactly 1
C2_AttemptNeverExceedsMax ==
    /\ [](pc # "prepare" => Attempt <= MaxAttempts)
    /\ [][Attempt' # Attempt => (pc = "retry" /\ Attempt' = Attempt + 1)]_vars

\* C2 amended: attempt changes only by the retry step adding exactly 1, the
\* retry step never takes attempt above max_attempts, and so an attempt that
\* is within max_attempts stays within it
C2_AttemptBoundedByRetry ==
    /\ [][Attempt' # Attempt =>
            (pc = "retry" /\ Attempt' = Attempt + 1 /\ Attempt' <= MaxAttempts')]_vars
    /\ [][(pc # "prepare" /\ Attempt <= MaxAttempts) => Attempt' <= MaxAttempts']_vars
    /\ [][MaxAttempts' = MaxAttempts \/ pc = "prepare"]_vars

\* C2 witness: two retries have taken attempt from 1 to the cap 3
C2_Witness ==
    /\ pc = "run"
    /\ Len(proc_calls) = 2
    /\ s.attempt = 3
    /\ s.max_attempts = 3

\* C3: every execution reaches the terminal END of the graph
C3_Terminates == <>(pc = "END")

\* C3 witness: END is reached after three attempts that recorded errors
C3_Witness ==
    /\ pc = "END"
    /\ Len(parsed) = 3
    /\ Len(Errors) >= 2


RECURSIVE SumSeq(_)
SumSeq(q) == IF Len(q) = 0 THEN 0 ELSE q[Len(q)] + SumSeq(SubSeq(q, 1, Len(q) - 1))

\* C4: cases is append-only (each step keeps the old sequence as a prefix) and
\* its length is the sum of the case counts of the parse steps made so far,
\* a failed parse counting 0
C4_CasesAppendOnly ==
    /\ [](Len(Results) = SumSeq(parsed))
    /\ [][IsPrefix(Results, Results')]_vars

\* C4 witness: three attempts, the second of which failed to parse
C4_Witness ==
    /\ Len(parsed) = 3
    /\ parsed[1] > 0 /\ parsed[2] = 0 /\ parsed[3] > 0
    /\ Len(Results) = parsed[1] + parsed[3]

\* the parse step about to run will find no file, or raise while parsing it
ParseFails ==
    \/ ~junit_file.exists
    \/ ~junit_file.wellformed
    \/ \E i \in 1..Len(iter(junit_file.root, "testcase")) :
          time_raises(iter(junit_file.root, "testcase")[i])

\* C5: a parse step that finds no file or raises appends exactly one error
\* entry and leaves summary and cases as they were
C5_FailedParseKeepsData ==
    [][(pc = "parse" /\ ParseFails) =>
          /\ Len(Errors') = Len(Errors) + 1
          /\ IsPrefix(Errors, Errors')
          /\ Summary' = Summary
          /\ Results' = Results]_vars

\* C5 witness: the second attempt's file raised after its first case had been
\* read, with cases and a non-zero summary accumulated by the first attempt
C5_Witness ==
    /\ pc = "approve"
    /\ Len(parsed) = 2 /\ parsed[1] > 0 /\ parsed[2] = 0
    /\ junit_file = XmlFile(SubSeq(TestCaseEls, 2, 3))
    /\ Len(Results) = parsed[1]
    /\ Summary.failed > 0

\* C6: a well-formed results file is parsed whatever its timing attributes:
\* all its cases are appended and counted, and a case whose timing is
\* malformed is recorded with a duration of 0.0
C6_MalformedTimingTolerated ==
    [][(pc = "parse" /\ junit_file.exists /\ junit_file.wellformed) =>
          LET tcs == iter(junit_file.root, "testcase")
          IN /\ Len(Results') = Len(Results) + Len(tcs)
             /\ Summary'.total = Len(tcs)
             /\ \A i \in 1..Len(tcs) :
                   time_raises(tcs[i]) => Results'[Len(Results) + i].time_s = 0]_vars

\* C7: with a missing cwd the runner makes no subprocess call, sets run_rc 2
\* and a stderr message and appends one error; when the subprocess call raises
\* it sets run_rc 2, puts the exception text into stderr and appends one
\* error; either way the next step is parse
C7_RunnerFailuresAreLocal ==
    [][pc = "run" =>
          /\ ~PathExists(s.cwd) =>
                /\ proc_calls' = proc_calls
                /\ s'.run_rc = 2
                /\ s'.stderr # ""
                /\ Len(Errors') = Len(Errors) + 1 /\ IsPrefix(Errors, Errors')
                /\ pc' = "parse"
          /\ (PathExists(s.cwd) /\ last_proc'.raised) =>
                /\ Len(proc_calls') = Len(proc_calls) + 1
                /\ s'.run_rc = 2
                /\ Contains(Chars(s'.stderr), last_proc'.exc)
                /\ Len(Errors') = Len(Errors) + 1 /\ IsPrefix(Errors, Errors')
                /\ pc' = "parse"]_vars

\* C7 witness: the runner has just returned from a missing working directory
C7_Witness ==
    /\ pc = "parse"
    /\ ~PathExists(s.cwd)
    /\ proc_calls = <<>>
    /\ s.run_rc = 2
    /\ Len(Errors) = 1

\* C8: a run whose working directory does not exist has exactly one attempt,
\* no subprocess call, run_rc 2, the runner's error followed by the parser's
\* results-not-found error, a zero summary, verdict end and exit code 0
C8_ScenarioF ==
    (pc = "exited" /\ ~PathExists(s.cwd)) =>
        /\ Len(parsed) = 1
        /\ proc_calls = <<>>
        /\ s.run_rc = 2
        /\ Len(s.errors) = 2
        /\ s.errors[1] = "[execute_tests] cwd not found: " \o s.cwd
        /\ Contains(Chars(s.errors[2]), "[parse_results] JUnit not found")
        /\ s.summary = ZeroSummary
        /\ s.results = <<>>
        /\ verdict = "end"
        /\ exit_code = 0

\* C8 witness: the run from the defaults with a missing directory has exited
C8_Witness ==
    /\ pc = "exited"
    /\ ~PathExists(s.cwd)
    /\ s.attempt = 1 /\ s.max_attempts = 2 /\ s.policy = "flaky_only" /\ s.approved
    /\ exit_code = 0

\* C9: the exit code is 0 exactly when the final summary has no failure, and
\* 1 otherwise, whatever errors and run_rc are
C9_ExitCodeFromFailed ==
    pc = "exited" => exit_code = (IF s.summary.failed = 0 THEN 0 ELSE 1)

\* C9 witness: exit code 1 although the subprocess returned 0 and no error
\* was recorded
C9_Witness ==
    /\ pc = "exited"
    /\ exit_code = 1
    /\ s.run_rc = 0
    /\ s.errors = <<>>

\* C10: the gate sets approved to TRUE on approve, to FALSE on deny, leaves it
\* on any other answer or on end of input, and changes no other field
C10_GateSetsOnlyApproved ==
    [][pc = "approve" =>
          /\ DOMAIN s' = DOMAIN s
          /\ \A k \in DOMAIN s \ {"approved"} : s'[k] = s[k]
          /\ (~ans'.eof /\ ans'.line = "approve") => s'.approved = TRUE
          /\ (~ans'.eof /\ ans'.line = " Deny ") => s'.approved = FALSE
          /\ (ans'.eof \/ ans'.line = "yes") => s'.approved = s.approved]_vars

\* C10 witness: a deny has just been read while failures were pending
C10_Witness ==
    /\ pc = "route"
    /\ ~ans.eof /\ ans.line = " Deny "
    /\ s.approved = FALSE
    /\ s.summary.failed > 0

\* C11: the gate asks for a decision only in an attempt with failures that
\* could still be retried: no input() call is made when summary.failed is 0,
\* when policy is none, or when attempt has reached max_attempts
C11_ApprovalOnlyWhenRetryConsidered ==
    [][prompts' # prompts =>
          /\ Summary.failed > 0
          /\ s.policy # "none"
          /\ Attempt < MaxAttempts]_vars

\* C12: the retry step is entered only from the router's value retry; it adds
\* exactly 1 to attempt and leaves cmd, results, summary and every other field
\* (and the set of fields) as they were
C12_RetryOnlyAddsOne ==
    /\ [][pc' = "retry" => (pc = "route" /\ verdict' = "retry")]_vars
    /\ [][pc = "retry" =>
            /\ verdict = "retry"
            /\ DOMAIN s' = DOMAIN s
            /\ s'.attempt = s.attempt + 1
            /\ \A k \in DOMAIN s \ {"attempt"} : s'[k] = s[k]]_vars

\* C12 witness: the retry step has just run on a state holding cases, a
\* summary with failures and the command
C12_Witness ==
    /\ pc = "run"
    /\ trace[Len(trace)] = "retry"
    /\ s.attempt = 2
    /\ Len(s.results) > 0
    /\ s.summary.failed > 0
    /\ s.cmd = DefaultCmd

\* the i-th node of a run: prepare, then run, parse, approve, retry in turn
ExpectedStep(i) ==
    IF i = 1 THEN "prepare" ELSE <<"run", "parse", "approve", "retry">>[((i - 2) % 4) + 1]

CountStep(step) == Cardinality({i \in 1..Len(trace) : trace[i] = step})

\* the nodes executed so far are prepare followed by rounds of run, parse,
\* approve, retry; the node about to execute is the next of that sequence,
\* and the graph ends only after an approve
FollowsStateMachine ==
    /\ \A i \in 1..Len(trace) : trace[i] = ExpectedStep(i)
    /\ pc \in {"prepare", "run", "parse", "approve", "retry"} => pc = ExpectedStep(Len(trace) + 1)
    /\ pc \in {"route", "END", "exited"} => trace[Len(trace)] = "approve"

\* C13 as stated: the nodes follow prepare -> run -> parse -> approve ->
\* {retry -> run | end}, and no node other than run, parse and approve is
\* executed more than once
C13_OnlyRunParseApproveRepeat ==
    /\ FollowsStateMachine
    /\ \A step \in {"prepare", "retry"} : CountStep(step) <= 1

\* C13 amended: the nodes follow prepare -> run -> parse -> approve ->
\* {retry -> run | end}; prepare is executed once and first, and each further
\* attempt executes retry, run, parse and approve once more
C13_StepSequence ==
    /\ FollowsStateMachine
    /\ CountStep("prepare") = (IF pc = "prepare" THEN 0 ELSE 1)
    /\ CountStep("retry") = (IF pc = "prepare" THEN 0 ELSE CountStep("run") - 1)
                              + (IF pc = "run" THEN 1 ELSE 0)

\* C13 witness: a run of three attempts has ended
C13_Witness ==
    /\ pc = "END"
    /\ CountStep("retry") = 2
    /\ CountStep("approve") = 3

\* C14: after every parse step that reads its file to the end, passed + failed
\* + skipped equals total in the new summary, and total is the number of cases
\* this step appended to results
C14_SummaryAddsUp ==
    [][(pc = "parse" /\ ~ParseFails) =>
          /\ Summary'.passed + Summary'.failed + Summary'.skipped = Summary'.total
          /\ Summary'.total = Len(Results') - Len(Results)]_vars

\* C14 witness: a file with a case carrying both markers and a skipped case
\* has been parsed
C14_Witness ==
    /\ pc = "approve"
    /\ junit_file = XmlFile(SubSeq(TestCaseEls, 5, 6))
    /\ Summary = [total |-> 2, passed |-> 0, failed |-> 1, skipped |-> 1]
    /\ Len(Results) = 2

\* the counts of a list of case records
Tally(cases) ==
    [total |-> Len(cases),
     passed |-> CountStatus(cases, "passed"),
     failed |-> CountStatus(cases, "failed"),
     skipped |-> CountStatus(cases, "skipped")]

\* C15: a parse step that reads its file to the end replaces summary by the
\* tally of exactly the cases it appended, whatever results held before; every
\* other step leaves summary as it was
C15_SummaryIsLatestAttempt ==
    /\ [][(pc = "parse" /\ ~ParseFails) =>
            Summary' = Tally(SubSeq(Results', Len(Results) + 1, Len(Results')))]_vars
    /\ [][(pc # "parse" \/ ParseFails) => Summary' = Summary]_vars

\* C15 witness: the second attempt has been parsed; results holds the cases of
\* both attempts while summary counts the second attempt's only
C15_Witness ==
    /\ pc = "approve"
    /\ Len(parsed) = 2 /\ parsed[1] = 2 /\ parsed[2] = 1
    /\ Len(Results) = 3
    /\ Summary = Tally(SubSeq(Results, 3, 3))
    /\ Summary # Tally(Results)

RequiredFields ==
    {"project", "cwd", "cmd", "junit_path", "env", "attempt", "max_attempts", "approved",
     "results", "summary", "errors", "policy", "retry_scope"}

DocumentedDefaults ==
    [project |-> "ui", cwd |-> ".", cmd |-> <<"npm", "run", "test:ui">>,
     junit_path |-> "results/junit-ui.xml", env |-> EmptyDict, attempt |-> 1,
     max_attempts |-> 2, approved |-> TRUE, results |-> <<>>,
     summary |-> [total |-> 0, passed |-> 0, failed |-> 0, skipped |-> 0],
     errors |-> <<>>, policy |-> "flaky_only", retry_scope |-> "full"]

\* C16: prepare_config returns a state holding every required field, each
\* absent field at its documented default and each supplied field at the
\* caller's value; applied to its own result it changes nothing
C16_PrepareFillsDefaults ==
    /\ [][pc = "prepare" =>
            /\ DOMAIN s' = DOMAIN s \cup RequiredFields
            /\ \A k \in DOMAIN s : s'[k] = s[k]
            /\ \A k \in RequiredFields \ DOMAIN s : s'[k] = DocumentedDefaults[k]]_vars
    /\ [][pc = "run" => s' = s]_vars

\* C16 witness: prepare_config has been applied twice to a state that supplied
\* attempt 3, max_attempts 0 and approved false and left the other fields out
C16_Witness ==
    /\ pc = "run"
    /\ trace = <<"prepare", "prepare">>
    /\ s.attempt = 3 /\ s.max_attempts = 0 /\ s.approved = FALSE
    /\ s.policy = "flaky_only" /\ s.retry_scope = "full"
    /\ s.results = <<>> /\ s.summary = ZeroSummary /\ s.errors = <<>>
    /\ s.cmd = DefaultCmd

\* C17: a second parse of the same file with attempt unchanged appends the
\* file's cases once more (results then ends with two equal copies of them,
\* nothing removed) and sets the same summary as the first parse did
C17_SecondParseDuplicates ==
    [][(pc = "approve" /\ ~ParseFails) =>
          LET n == parsed[1]
              before == Len(Results)
          IN /\ Attempt' = Attempt
             /\ IsPrefix(Results, Results')
             /\ Len(Results') = before + n
             /\ SubSeq(Results', before + 1, before + n) = SubSeq(Results, before - n + 1, before)
             /\ Summary' = Summary]_vars

\* C17 witness: a file of two cases has been parsed twice on top of an
\* earlier attempt's case
C17_Witness ==
    /\ pc = "approve"
    /\ parsed = <<2, 2>>
    /\ Len(Results) = 5
    /\ Results[2] = Results[4] /\ Results[3] = Results[5]
    /\ Results[2] # Results[3]
    /\ Summary.total = 2

\* the <testcase> carries a marker element of that kind
HasMarker(tc, kind) == \E i \in 1..Len(tc.children) : tc.children[i].tag = kind

\* C18: every record a parse step appends has status failed when its case
\* carries a failure marker (with or without a skip marker), skipped when it
\* carries only a skip marker, passed otherwise; and every record whose status
\* is not failed has the empty message
C18_StatusPriority ==
    /\ [][(pc = "parse" /\ ~ParseFails) =>
            LET tcs == iter(junit_file.root, "testcase")
                before == Len(Results)
            IN \A i \in 1..Len(tcs) :
                  /\ Results'[before + i].status =
                        (IF HasMarker(tcs[i], "failure") THEN "failed"
                         ELSE IF HasMarker(tcs[i], "skipped") THEN "skipped"
                         ELSE "passed")
                  /\ Results'[before + i].name = Get(tcs[i].attrib, "name", "")]_vars
    /\ [](\A i \in 1..Len(Results) :
             Results[i].status # "failed" => Results[i].message = "")

\* C18 witness: a case with both markers was recorded as failed and a case
\* with only a skip marker as skipped, with an empty message
C18_Witness ==
    /\ pc = "approve"
    /\ Len(parsed) = 1
    /\ Len(Results) = 2
    /\ Results[1].name = "Checkout @Flaky" /\ Results[1].status = "failed"
    /\ Results[2].name = "profile @flaky" /\ Results[2].status = "skipped"
    /\ Results[2].message = ""

\* C19: when the gate has just read deny, the router's value is end and the
\* graph goes from that approve step to END with the state as it was; from END
\* on no subprocess call is made, no node executes, and attempt, results and
\* summary keep their values
C19_DenyEndsRun ==
    /\ [][(pc = "route" /\ ~ans.eof /\ lower(strip(ans.line)) = DenyText) =>
            /\ verdict' = "end"
            /\ pc' = "END"
            /\ s' = s
            /\ proc_calls' = proc_calls]_vars
    /\ [][(pc = "END" \/ pc = "exited") =>
            /\ pc' = "exited"
            /\ proc_calls' = proc_calls
            /\ trace' = trace
            /\ Attempt' = Attempt
            /\ Results' = Results
            /\ Summary' = Summary]_vars

\* C19 witness: the run ended at its second attempt, under policy always with
\* failures and attempts left, after the second gate turned approved to false
C19_Witness ==
    /\ pc = "END"
    /\ s.approved = FALSE
    /\ s.policy = "always"
    /\ s.attempt = 2 /\ s.max_attempts = 3
    /\ s.summary.failed > 0
    /\ Len(proc_calls) = 2

\* C20: when the parse step of a retry attempt finds no file or raises,
\* summary still has the previous attempt's failed > 0 and results holds no
\* case tagged with the current attempt; the router then answers end under
\* policy flaky_only, retry under policy always while approved and below
\* max_attempts, and end once attempt has reached max_attempts
C20_FailedRetryParseUsesStaleSummary ==
    /\ [][(pc = "parse" /\ ParseFails /\ Len(parsed) >= 1) =>
            /\ Summary'.failed > 0
            /\ Summary' = Summary
            /\ \A i \in 1..Len(Results') : Results'[i].attempt # Attempt']_vars
    /\ [][(pc = "approve" /\ Len(parsed) >= 2 /\ parsed[Len(parsed)] = 0 /\ Summary.failed > 0) =>
            (parsed' = parsed /\ Summary' = Summary /\ Results' = Results)]_vars
    /\ [][(pc = "route" /\ Len(parsed) >= 2 /\ parsed[Len(parsed)] = 0 /\ Summary.failed > 0) =>
            /\ s.policy = "flaky_only" => (verdict' = "end" /\ pc' = "END")
            /\ (s.policy = "always" /\ s.approved /\ Attempt < MaxAttempts) =>
                  (verdict' = "retry" /\ pc' = "retry")
            /\ Attempt >= MaxAttempts => (verdict' = "end" /\ pc' = "END")]_vars

\* C20 witness: under policy always the parses of attempts 2 and 3 failed; the
\* run retried after attempt 2 on the first attempt's failures and ended at
\* attempt 3, the cap
C20_Witness ==
    /\ pc = "END"
    /\ s.policy = "always"
    /\ s.approved
    /\ Len(parsed) = 3 /\ parsed[1] > 0 /\ parsed[2] = 0 /\ parsed[3] = 0
    /\ s.attempt = 3 /\ s.max_attempts = 3
    /\ s.summary.failed > 0
    /\ \A i \in 1..Len(s.results) : s.results[i].attempt = 1

====
